---- MODULE Spec2Model ----
(***************************************************************************)
(* Model of pdm's virtualenv backends                                      *)
(* (src/pdm/cli/commands/venv/backends.py): interpreter resolution, the    *)
(* location and cleanup policy, and Backend.create for the four backends.  *)
(*                                                                         *)
(* One backend object serves one create call.  The call is followed step   *)
(* by step (pc), because the claims are about what has happened to the     *)
(* filesystem at the moment an error is raised.                            *)
(***************************************************************************)
EXTENDS Naturals, Sequences, FiniteSets

VARIABLES
    backend,     \* key of BACKENDS selecting the class of the object
    python,      \* self.python ("" stands for None / empty)
    req,         \* the arguments of create()
    pinned,      \* self.project._python (None or an interpreter)
    candidates,  \* what the project's discovery yields for self.python, in order
    fs,          \* the filesystem: path -> "none" | "file" | "dir" | "link"
    lnk,         \* target of each symbolic link
    fs0,         \* the filesystem when the call started
    pc,          \* position inside create()
    location,    \* local variable location of create()
    cargs,       \* local variable args of create() after line 125
    cprompt,     \* local variable prompt of create() after line 127
    entries,     \* entries os.scandir(location) has not yet produced
    cache,       \* value stored by cached_property _resolved_interpreter
    consulted,   \* number of times project.iter_interpreters was called
    uses,        \* number of reads of self._resolved_interpreter
    seen,        \* the interpreters those reads returned
    cmd,         \* the command handed to subprocess.check_call
    spawned,     \* number of external processes launched
    err,         \* the exception that left create(), if any
    errAt        \* value of pc when that exception was raised

vars == <<backend, python, req, pinned, candidates, fs, lnk, fs0, pc, location,
          cargs, cprompt, entries, cache, consulted, uses, seen, cmd, spawned,
          err, errAt>>

----------------------------------------------------------------------------
(* Bounds *)

\* longest discovery result enumerated for the resolution function
MaxCands == 2

----------------------------------------------------------------------------
(* Interpreters (pdm.models.python.PythonInfo, as far as backends.py reads it) *)

\* satisfies: project.python_requires.contains(py_version.version, True)
PyInfo(id, exe, maj, min, v, s) ==
    [identifier |-> id, executable |-> exe, major |-> maj, minor |-> min,
     valid |-> v, satisfies |-> s]

Interpreters ==
    { PyInfo("3.11", "/usr/bin/python3.11", "3", "11", TRUE, TRUE),
      PyInfo("3.6", "/usr/bin/python3.6", "3", "6", TRUE, FALSE),
      PyInfo("broken-3.11", "/opt/broken/python3.11", "3", "11", FALSE, TRUE),
      PyInfo("broken-3.6", "/opt/broken/python3.6", "3", "6", FALSE, FALSE) }

\* Python's None where a PythonInfo is expected
None == PyInfo("None", "", "", "", FALSE, FALSE)

RECURSIVE SeqsUpTo(_, _)
SeqsUpTo(S, n) ==
    IF n = 0 THEN { <<>> }
    ELSE LET shorter == SeqsUpTo(S, n - 1)
         IN  shorter \cup { Append(s, x) : s \in shorter, x \in S }

----------------------------------------------------------------------------
(* Exceptions *)

NoError == [type |-> "", msg |-> <<>>]

Raise(t, m) == [type |-> t, msg |-> m]

UsageBoth == Raise("PdmUsageError", <<"Cannot specify both name and venv_name">>)

UsagePythonArg ==
    Raise("PdmUsageError", <<"Cannot use python= in conda creation arguments">>)

ResolveError(py) ==
    Raise("VirtualenvCreateError",
          <<"Can't resolve python interpreter">> \o (IF py # "" THEN <<" ", py>> ELSE <<>>))

NotEmptyError ==
    Raise("VirtualenvCreateError",
          <<"The location is not empty, add --force to overwrite it.">>)

CalledProcessError == Raise("VirtualenvCreateError", <<"CalledProcessError">>)

\* not raised by backends.py itself: what os / subprocess raise through it
CleanupOSError == Raise("OSError", <<"cleanup">>)

LaunchOSError == Raise("FileNotFoundError", <<"launch">>)

----------------------------------------------------------------------------
(* Interpreter resolution *)

\* match_func without the explicit-spec shortcut
match_func_strict(py_version) == py_version.valid /\ py_version.satisfies

match_func(py_version) ==
    (python # "") \/ (py_version.valid /\ py_version.satisfies)

\* project.iter_interpreters(self.python, filter_func=match_func, ...): the
\* discovered candidates that pass filter_func, in discovery order
iter_interpreters(cands) == SelectSeq(cands, match_func)

\* The part of the backend object that resolution reads and writes:
\* r.cache (None: not yet computed), r.consulted, r.uses, r.seen.
Fresh == [cache |-> None, consulted |-> 0, uses |-> 0, seen |-> {}]

Now == [cache |-> cache, consulted |-> consulted, uses |-> uses, seen |-> seen]

\* body of _resolved_interpreter (lines 36-53); an exception stores nothing
compute_resolved_interpreter(r) ==
    IF python = "" /\ pinned # None
    THEN [ok |-> TRUE, py |-> pinned,
          r |-> [r EXCEPT !.cache = pinned, !.uses = @ + 1, !.seen = @ \cup {pinned}]]
    ELSE LET found == iter_interpreters(candidates)
         IN  IF found # <<>>
             THEN [ok |-> TRUE, py |-> Head(found),
                   r |-> [r EXCEPT !.cache = Head(found), !.consulted = @ + 1,
                                   !.uses = @ + 1, !.seen = @ \cup {Head(found)}]]
             ELSE [ok |-> FALSE, py |-> None,
                   r |-> [r EXCEPT !.consulted = @ + 1, !.uses = @ + 1]]

\* a plain property where the code has a cached_property
uncached_resolved_interpreter(r) == compute_resolved_interpreter(r)

\* one read of self._resolved_interpreter (cached_property, line 34)
resolved_interpreter(r) ==
    IF r.cache # None
    THEN [ok |-> TRUE, py |-> r.cache,
          r |-> [r EXCEPT !.uses = @ + 1, !.seen = @ \cup {r.cache}]]
    ELSE compute_resolved_interpreter(r)

----------------------------------------------------------------------------
(* Filesystem.  "loc" is the path create() computes; "loc/a", "loc/a/x" and
   "loc/b" may lie inside it; "ext" is a directory elsewhere, holding "ext/y";
   "venv_root" is the configured venv.location. *)

Paths == {"venv_root", "loc", "loc/a", "loc/a/x", "loc/b", "ext", "ext/y"}

LinkPaths == {"loc", "loc/b"}

Nowhere == "nowhere"

Parent(p) ==
    CASE p = "loc/a" -> "loc"
      [] p = "loc/b" -> "loc"
      [] p = "loc/a/x" -> "loc/a"
      [] p = "ext/y" -> "ext"
      [] OTHER -> "/"

Children(p) == { q \in Paths : Parent(q) = p }

Descendants(p) == Children(p) \cup UNION { Children(q) : q \in Children(p) }

\* the path after following a symbolic link at p
Real(f, l, p) == IF f[p] = "link" THEN l[p] ELSE p

\* what stat() finds at p ("none": nothing, or a dangling link)
Stat(f, l, p) ==
    LET q == Real(f, l, p) IN IF q = Nowhere THEN "none" ELSE f[q]

exists(f, l, p) == Stat(f, l, p) # "none"

is_dir(f, l, p) == Stat(f, l, p) = "dir"

is_file(f, l, p) == Stat(f, l, p) = "file"

is_symlink(f, p) == f[p] = "link"

\* location.iterdir() / os.scandir(location): the names inside the directory
iterdir(f, l, p) ==
    LET d == Real(f, l, p)
    IN  IF d = Nowhere THEN {} ELSE { q \in Children(d) : f[q] # "none" }

\* location.unlink() / os.remove(path): the one name goes, a link's target stays
remove(f, p) == [f EXCEPT ![p] = "none"]

\* shutil.rmtree(path): the directory and everything below it
rmtree(f, p) == [q \in Paths |-> IF q = p \/ q \in Descendants(p) THEN "none" ELSE f[q]]

\* venv_parent.mkdir(exist_ok=True, parents=True)
mkdir(f, p) == [f EXCEPT ![p] = "dir"]

\* a filesystem is well formed: names exist only inside real directories,
\* links point at something that is not a link, and away from their own tree
WellFormed(f, l) ==
    /\ \A p \in Paths : f[p] # "none" /\ Parent(p) # "/" => f[Parent(p)] = "dir"
    /\ \A p \in Paths : f[p] = "link" => p \in LinkPaths
    /\ f["ext"] = "dir" /\ f["ext/y"] = "file"
    /\ f["venv_root"] \in {"none", "dir"}
    /\ f["loc/a/x"] \in {"none", "file"}
    /\ f["loc/a"] \in {"none", "file", "dir"}
    /\ f["loc/b"] \in {"none", "file", "link"}
    /\ l["loc"] \in (IF f["loc"] = "link" THEN {"ext", "ext/y", Nowhere} ELSE {Nowhere})
    /\ l["loc/b"] \in (IF f["loc/b"] = "link"
                       THEN {"loc/a", "ext", "ext/y", Nowhere} ELSE {Nowhere})

MkFs(root, loc, a, x, b) ==
    [p \in Paths |->
        CASE p = "venv_root" -> root
          [] p = "loc" -> loc
          [] p = "loc/a" -> a
          [] p = "loc/a/x" -> x
          [] p = "loc/b" -> b
          [] p = "ext" -> "dir"
          [] p = "ext/y" -> "file"]

MkLnk(lt, bt) == [p \in LinkPaths |-> IF p = "loc" THEN lt ELSE bt]

\* every well-formed filesystem over Paths
Filesystems ==
    { c \in { [f |-> MkFs(root, loc, a, x, b), l |-> MkLnk(lt, bt)] :
                root \in {"none", "dir"}, loc \in {"none", "file", "dir", "link"},
                a \in {"none", "file", "dir"}, x \in {"none", "file"},
                b \in {"none", "file", "link"},
                lt \in {"ext", "ext/y", Nowhere},
                bt \in {"loc/a", "ext", "ext/y", Nowhere} } :
        WellFormed(c.f, c.l) }

----------------------------------------------------------------------------
(* Cleanup policy: Backend._ensure_clean *)

\* _ensure_clean without line 83: every existing location counts as occupied
ensure_clean_no_empty_check(f, l, loc, force) ==
    IF ~exists(f, l, loc) THEN "return"
    ELSE IF ~force THEN "raise"
    ELSE IF is_file(f, l, loc) THEN "unlink"
    ELSE "scandir"

\* lines 81-93: what _ensure_clean decides before it touches anything
ensure_clean(f, l, loc, force) ==
    IF ~exists(f, l, loc) THEN "return"
    ELSE IF is_dir(f, l, loc) /\ iterdir(f, l, loc) = {} THEN "return"
    ELSE IF ~force THEN "raise"
    ELSE IF is_file(f, l, loc) THEN "unlink"
    ELSE "scandir"

\* the loop body with the symlink test dropped: links to directories are traversed
clean_entry_follow_links(f, l, e) ==
    IF is_dir(f, l, e) THEN rmtree(rmtree(f, Real(f, l, e)), e) ELSE remove(f, e)

\* lines 96-99: one entry of the scan
clean_entry(f, l, e) ==
    IF is_dir(f, l, e) /\ ~is_symlink(f, e) THEN rmtree(f, e) ELSE remove(f, e)

----------------------------------------------------------------------------
(* The four backends *)

Backends == {"virtualenv", "venv", "conda", "uv"}

\* a command-line word is the sequence of the pieces it is formatted from
W(x) == <<x>>

StartsWithPythonEq(arg) == Len(arg) > 0 /\ arg[1] = "python="

\* pip_args of VirtualenvBackend, VenvBackend, UvBackend, CondaBackend
pip_args(b, with_pip) ==
    CASE b = "virtualenv" ->
            IF with_pip THEN <<>>
            ELSE << W("--no-pip"), W("--no-setuptools"), W("--no-wheel") >>
      [] b = "venv" -> IF with_pip THEN <<>> ELSE << W("--without-pip") >>
      [] b = "uv" -> IF with_pip THEN << W("--seed") >> ELSE <<>>
      [] b = "conda" -> IF with_pip THEN << W("pip") >> ELSE <<>>

\* Backend.ident: the resolved interpreter's identifier, for every backend
base_ident(b, r) ==
    LET i == resolved_interpreter(r)
    IN  [ok |-> i.ok, ident |-> i.py.identifier, r |-> i.r]

\* CondaBackend without its ident override
ident_always_resolves(b, r) == base_ident(b, r)

\* Backend.ident (lines 55-64) and CondaBackend.ident (lines 194-200)
ident(b, r) ==
    IF b = "conda" /\ python # ""
    THEN [ok |-> TRUE, ident |-> python, r |-> r]
    ELSE base_ident(b, r)

\* get_venv_prefix(self.project)
venv_prefix == "<venv-prefix>"

\* lines 107-109: the final path segment, f1 the filesystem after line 106
venv_path(b, name, venv_name, f1, r) ==
    IF venv_name # ""
    THEN [err |-> NoError, fs |-> f1,
          location |-> <<"venv.location", "/", venv_name>>, r |-> r]
    ELSE IF name # ""
    THEN [err |-> NoError, fs |-> f1,
          location |-> <<"venv.location", "/", venv_prefix, name>>, r |-> r]
    ELSE LET i == ident(b, r)
         IN  IF i.ok
             THEN [err |-> NoError, fs |-> f1,
                   location |-> <<"venv.location", "/", venv_prefix, i.ident>>,
                   r |-> i.r]
             ELSE [err |-> ResolveError(python), fs |-> f1, location |-> <<>>,
                   r |-> i.r]

\* get_location that creates the venv root before it validates its arguments
get_location_mkdir_first(b, name, venv_name, f, l, r) ==
    LET f1 == IF ~is_dir(f, l, "venv_root") THEN mkdir(f, "venv_root") ELSE f
    IN  IF name # "" /\ venv_name # ""
        THEN [err |-> UsageBoth, fs |-> f1, location |-> <<>>, r |-> r]
        ELSE venv_path(b, name, venv_name, f1, r)

\* Backend.get_location (lines 101-109)
get_location(b, name, venv_name, f, l, r) ==
    IF name # "" /\ venv_name # ""
    THEN [err |-> UsageBoth, fs |-> f, location |-> <<>>, r |-> r]
    ELSE LET f1 == IF ~is_dir(f, l, "venv_root") THEN mkdir(f, "venv_root") ELSE f
         IN  venv_path(b, name, venv_name, f1, r)

\* self.project.root.name
project_root_name == "MyApp"

\* str.lower on the names the model uses
lower(x) == IF x = "MyApp" THEN "myapp" ELSE x

Template == "{project_name}-{python_version}"

\* lines 126-130: prompt.format(project_name=..., python_version=self.ident);
\* both arguments are evaluated whatever the template uses.  None is <<>>.
format_prompt(b, prompt, r) ==
    IF prompt = "None"
    THEN [ok |-> TRUE, prompt |-> <<>>, r |-> r]
    ELSE LET project_name ==
                 IF lower(project_root_name) # "" THEN lower(project_root_name)
                 ELSE "virtualenv"
             i == ident(b, r)
         IN  [ok |-> i.ok,
              prompt |-> IF i.ok THEN <<project_name, "-", i.ident>> ELSE <<>>,
              r |-> i.r]

prompt_option(prompt) == IF prompt # <<>> THEN << <<"--prompt=">> \o prompt >> ELSE <<>>

\* perform_create of VirtualenvBackend (146-158), VenvBackend (167-170),
\* UvBackend (179-190) and CondaBackend (207-217), up to the subprocess call
perform_create(b, loc, args, prompt, r) ==
    IF b = "conda"
    THEN LET i == IF python # ""
                  THEN [ok |-> TRUE, ver |-> <<python>>, r |-> r]
                  ELSE LET j == resolved_interpreter(r)
                       IN  [ok |-> j.ok, ver |-> <<j.py.major, ".", j.py.minor>>,
                            r |-> j.r]
         IN  IF ~i.ok THEN [err |-> ResolveError(python), cmd |-> <<>>, r |-> i.r]
             ELSE IF \E k \in 1..Len(args) : StartsWithPythonEq(args[k])
             THEN [err |-> UsagePythonArg, cmd |-> <<>>, r |-> i.r]
             ELSE [err |-> NoError, r |-> i.r,
                   cmd |-> << W("conda"), W("create"), W("--yes"), W("--prefix"), loc,
                              <<"python=">> \o i.ver >> \o args]
    ELSE LET i == resolved_interpreter(r)
             exe == W(i.py.executable)
         IN  IF ~i.ok THEN [err |-> ResolveError(python), cmd |-> <<>>, r |-> i.r]
             ELSE [err |-> NoError, r |-> i.r,
                   cmd |-> CASE b = "virtualenv" ->
                                << W("sys.executable"), W("-m"), W("virtualenv"), loc,
                                   W("-p"), exe >> \o prompt_option(prompt) \o args
                             [] b = "venv" ->
                                << exe, W("-m"), W("venv"), loc >>
                                    \o prompt_option(prompt) \o args
                             [] b = "uv" ->
                                << W("uv"), W("venv"), W("-p"), exe >>
                                    \o prompt_option(prompt) \o args \o << loc >>]

\* how the external tool can end
ToolOutcomes == {"exit 0", "non-zero exit", "launch failure"}

\* subprocess_call (lines 66-78): only CalledProcessError is translated
subprocess_call(outcome) ==
    CASE outcome = "exit 0" -> NoError
      [] outcome = "non-zero exit" -> CalledProcessError
      [] outcome = "launch failure" -> LaunchOSError

----------------------------------------------------------------------------
(* Backend.create, step by step *)

SetR(r) ==
    /\ cache' = r.cache
    /\ consulted' = r.consulted
    /\ uses' = r.uses
    /\ seen' = r.seen

Fail(e) ==
    /\ err' = e
    /\ errAt' = pc
    /\ pc' = "done"

Goto(l) ==
    /\ pc' = l
    /\ UNCHANGED <<err, errAt>>

input == <<backend, python, req, pinned, candidates, lnk, fs0>>

\* lines 121-124
ComputeLocation ==
    /\ pc = "create"
    /\ IF req.in_project
       THEN /\ location' = <<"project.root", "/", ".venv">>
            /\ Goto("args")
            /\ UNCHANGED <<fs, cache, consulted, uses, seen>>
       ELSE LET g == get_location(backend, req.name, req.venv_name, fs, lnk, Now)
            IN  /\ fs' = g.fs
                /\ SetR(g.r)
                /\ location' = g.location
                /\ IF g.err = NoError THEN Goto("args") ELSE Fail(g.err)
    /\ UNCHANGED <<input, cargs, cprompt, entries, cmd, spawned>>

\* lines 125-130
PrepareArgs ==
    /\ pc = "args"
    /\ cargs' = pip_args(backend, req.with_pip) \o req.args
    /\ LET p == format_prompt(backend, req.prompt, Now)
       IN  /\ SetR(p.r)
           /\ cprompt' = p.prompt
           /\ IF p.ok THEN Goto("clean") ELSE Fail(ResolveError(python))
    /\ UNCHANGED <<input, fs, location, entries, cmd, spawned>>

\* _ensure_clean that tests force only after it has emptied the location
EnsureCleanLateForceCheck ==
    /\ pc = "clean"
    /\ LET plan == ensure_clean(fs, lnk, "loc", TRUE)
       IN  CASE plan = "return" ->
                  /\ Goto("perform")
                  /\ UNCHANGED <<fs, entries>>
             [] plan = "unlink" ->
                  /\ fs' = remove(fs, "loc")
                  /\ IF req.force THEN Goto("perform") ELSE Fail(NotEmptyError)
                  /\ UNCHANGED entries
             [] plan = "scandir" ->
                  /\ entries' = iterdir(fs, lnk, "loc")
                  /\ fs' = IF req.force THEN fs
                           ELSE [q \in Paths |->
                                   IF q \in iterdir(fs, lnk, "loc") THEN "none" ELSE fs[q]]
                  /\ IF req.force THEN Goto("scan") ELSE Fail(NotEmptyError)
    /\ UNCHANGED <<input, location, cargs, cprompt, cache, consulted, uses, seen,
                   cmd, spawned>>

\* line 131, up to the first deletion: lines 81-94
EnsureClean ==
    /\ pc = "clean"
    /\ LET plan == ensure_clean(fs, lnk, "loc", req.force)
       IN  CASE plan = "return" ->
                  /\ Goto("perform")
                  /\ UNCHANGED <<fs, entries>>
             [] plan = "raise" ->
                  /\ Fail(NotEmptyError)
                  /\ UNCHANGED <<fs, entries>>
             [] plan = "unlink" ->
                  /\ fs' = remove(fs, "loc")
                  /\ Goto("perform")
                  /\ UNCHANGED entries
             [] plan = "scandir" ->
                  /\ entries' = iterdir(fs, lnk, "loc")
                  /\ Goto("scan")
                  /\ UNCHANGED fs
    /\ UNCHANGED <<input, location, cargs, cprompt, cache, consulted, uses, seen,
                   cmd, spawned>>

\* lines 95-99: the scan hands out one more entry, in no particular order
CleanEntry ==
    /\ pc = "scan"
    /\ \E e \in entries :
          /\ fs' = clean_entry(fs, lnk, e)
          /\ entries' = entries \ {e}
          /\ Goto(IF entries = {e} THEN "perform" ELSE "scan")
    /\ UNCHANGED <<input, location, cargs, cprompt, cache, consulted, uses, seen,
                   cmd, spawned>>

\* what a failing deletion of entry e can leave behind
failed_clean_entry(f, l, e) ==
    IF is_dir(f, l, e) /\ ~is_symlink(f, e)
    THEN { f, [q \in Paths |-> IF q \in Descendants(e) THEN "none" ELSE f[q]] }
    ELSE { f }

\* location.unlink(), os.remove or shutil.rmtree raises (permissions, I/O):
\* nothing in _ensure_clean or create catches it
CleanupFails ==
    /\ \/ /\ pc = "clean"
          /\ ensure_clean(fs, lnk, "loc", req.force) = "unlink"
          /\ UNCHANGED fs
       \/ /\ pc = "scan"
          /\ \E e \in entries : fs' \in failed_clean_entry(fs, lnk, e)
    /\ Fail(CleanupOSError)
    /\ UNCHANGED <<input, location, cargs, cprompt, entries, cache, consulted,
                   uses, seen, cmd, spawned>>

\* line 132, up to the call of subprocess_call
PerformCreate ==
    /\ pc = "perform"
    /\ LET p == perform_create(backend, location, cargs, cprompt, Now)
       IN  /\ SetR(p.r)
           /\ cmd' = p.cmd
           /\ IF p.err = NoError THEN Goto("spawn") ELSE Fail(p.err)
    /\ UNCHANGED <<input, fs, location, cargs, cprompt, entries, spawned>>

\* what a successful tool leaves at the location
tool_effect(f) == [f EXCEPT !["loc"] = IF @ = "none" THEN "dir" ELSE @]

\* subprocess_call, and line 133
SubprocessCall ==
    /\ pc = "spawn"
    /\ \E outcome \in ToolOutcomes :
          /\ spawned' = IF outcome = "launch failure" THEN spawned ELSE spawned + 1
          /\ fs' = IF outcome = "exit 0" THEN tool_effect(fs) ELSE fs
          /\ IF subprocess_call(outcome) = NoError
             THEN Goto("done")
             ELSE Fail(subprocess_call(outcome))
    /\ UNCHANGED <<input, location, cargs, cprompt, entries, cache, consulted,
                   uses, seen, cmd>>

----------------------------------------------------------------------------
(* The creation request *)

Requests(argChoices) ==
    [name : {"", "myenv"}, venv_name : {"", "custom"}, args : argChoices,
     force : BOOLEAN, in_project : BOOLEAN, prompt : {"None", Template},
     with_pip : BOOLEAN]

ArgChoices == { <<>>, << <<"python=", "3.10">> >> }

\* discovery results a create call is run against
CreateCandidates ==
    { <<>>,
      << PyInfo("3.11", "/usr/bin/python3.11", "3", "11", TRUE, TRUE) >>,
      << PyInfo("broken-3.6", "/opt/broken/python3.6", "3", "6", FALSE, FALSE),
         PyInfo("3.11", "/usr/bin/python3.11", "3", "11", TRUE, TRUE) >> }

\* layouts a create call is run against: the location is absent, a file, an
\* empty directory, or a directory holding a/x and/or a link b
CreateFilesystems ==
    { c \in Filesystems :
        /\ c.f["loc"] # "link"
        /\ c.f["loc/a"] \in {"none", "dir"}
        /\ c.f["loc/a"] = "dir" => c.f["loc/a/x"] = "file"
        /\ c.f["loc/b"] \in {"none", "link"}
        /\ c.l["loc/b"] \in {"loc/a", "ext", Nowhere}
        /\ c.f["loc/b"] = "link" /\ c.l["loc/b"] = "loc/a" => c.f["loc/a"] = "dir" }

Idle ==
    /\ location = <<>>
    /\ cargs = <<>>
    /\ cprompt = <<>>
    /\ entries = {}
    /\ cache = None
    /\ consulted = 0
    /\ uses = 0
    /\ seen = {}
    /\ cmd = <<>>
    /\ spawned = 0
    /\ err = NoError
    /\ errAt = ""

Init ==
    /\ backend \in Backends
    /\ python \in {"", "3.12"}
    /\ req \in Requests(ArgChoices)
    /\ pinned \in {None, PyInfo("3.11", "/usr/bin/python3.11", "3", "11", TRUE, TRUE)}
    /\ candidates \in CreateCandidates
    /\ \E c \in CreateFilesystems :
          \* a location under the venv root exists only if the root does
          /\ ~req.in_project /\ c.f["venv_root"] = "none" => c.f["loc"] = "none"
          /\ fs = c.f
          /\ lnk = c.l
    /\ fs0 = fs
    /\ pc = "create"
    /\ Idle

Next ==
    \/ ComputeLocation
    \/ PrepareArgs
    \/ EnsureClean
    \/ CleanEntry
    \/ CleanupFails
    \/ PerformCreate
    \/ SubprocessCall

Spec == Init /\ [][Next]_vars

----------------------------------------------------------------------------
(* _ensure_clean on its own: every layout, force or not *)

DefaultRequest ==
    [name |-> "", venv_name |-> "", args |-> <<>>, force |-> FALSE,
     in_project |-> TRUE, prompt |-> "None", with_pip |-> FALSE]

InitClean ==
    /\ backend = "virtualenv"
    /\ python = ""
    /\ \E force \in BOOLEAN : req = [DefaultRequest EXCEPT !.force = force]
    /\ pinned = None
    /\ candidates = <<>>
    /\ \E c \in Filesystems : fs = c.f /\ lnk = c.l
    /\ fs0 = fs
    /\ pc = "clean"
    /\ Idle

\* pc = "perform" is _ensure_clean having returned normally
NextClean ==
    \/ EnsureClean
    \/ CleanEntry
    \/ CleanupFails

SpecClean == InitClean /\ [][NextClean]_vars

----------------------------------------------------------------------------
(* _resolved_interpreter on its own: every spec, pin and discovery result *)

\* the first read of self._resolved_interpreter on a new backend object
Resolve ==
    /\ pc = "resolve"
    /\ LET i == resolved_interpreter(Now)
       IN  /\ SetR(i.r)
           /\ IF i.ok THEN Goto("done") ELSE Fail(ResolveError(python))
    /\ UNCHANGED <<input, fs, location, cargs, cprompt, entries, cmd, spawned>>

InitResolve ==
    /\ backend = "virtualenv"
    /\ python \in {"", "3.12"}
    /\ req = DefaultRequest
    /\ pinned \in {None} \cup Interpreters
    /\ candidates \in SeqsUpTo(Interpreters, MaxCands)
    /\ \E c \in Filesystems :
          /\ c.f["venv_root"] = "dir" /\ c.f["loc"] = "none"
          /\ fs = c.f
          /\ lnk = c.l
    /\ fs0 = fs
    /\ pc = "resolve"
    /\ Idle

NextResolve == Resolve

SpecResolve == InitResolve /\ [][NextResolve]_vars

----------------------------------------------------------------------------
(* Vocabulary of the properties *)

BothNames == req.name # "" /\ req.venv_name # ""

NothingDeleted == \A p \in Paths : fs0[p] # "none" => fs[p] = fs0[p]

NothingCreated == \A p \in Paths : fs0[p] = "none" => fs[p] = "none"

\* the filesystem is as the call found it, the venv root apart
OnlyRootCreated == \A p \in Paths \ {"venv_root"} : fs[p] = fs0[p]

Absent0 == ~exists(fs0, lnk, "loc")

EmptyDir0 == is_dir(fs0, lnk, "loc") /\ iterdir(fs0, lnk, "loc") = {}

\* occupied: a file, or a directory that is not empty
Occupied0 ==
    \/ is_file(fs0, lnk, "loc")
    \/ is_dir(fs0, lnk, "loc") /\ iterdir(fs0, lnk, "loc") # {}

HasPythonArg == \E k \in 1..Len(req.args) : StartsWithPythonEq(req.args[k])

Accepted(py) == py.valid /\ py.satisfies

----------------------------------------------------------------------------
(* Claims *)

\* C1, as stated: whatever in_project and force are, a create call given both
\* a name and a venv_name ends in the PdmUsageError of get_location, with
\* nothing created (the venv root included) and nothing removed.
C1_BothNamesAlwaysUsageError ==
    BothNames =>
        /\ NothingCreated /\ NothingDeleted
        /\ pc = "done" => err = UsageBoth

\* C1, amended: with in_project false, a create call given both a name and a
\* venv_name fails in its first step with PdmUsageError, and the filesystem is
\* exactly as the call found it: no directory created, nothing removed.
C1_BothNamesUsageErrorOutsideProject ==
    (BothNames /\ ~req.in_project) =>
        /\ NothingCreated /\ NothingDeleted
        /\ pc \in {"create", "done"}
        /\ pc = "done" => err = UsageBoth /\ errAt = "create"

\* reached: the usage error with force set and a venv root that did not exist
C1_Witness ==
    /\ BothNames /\ ~req.in_project /\ req.force
    /\ fs0["venv_root"] = "none"
    /\ pc = "done" /\ err = UsageBoth

\* C2, as stated: a create call that fails before perform_create is entered
\* (an I/O failure part-way through cleanup included) has changed nothing but,
\* at most, created the venv root.
C2_FailureBeforePerformLeavesLocation ==
    (pc = "done" /\ err # NoError /\ errAt \in {"create", "args", "clean", "scan"})
        => OnlyRootCreated

\* C2, amended: a create call that fails before cleanup has started deleting
\* (usage error, interpreter resolution failure while computing the location
\* or the prompt, occupied location with force false) has changed nothing but,
\* at most, created the venv root.
C2_FailureBeforeCleanupLeavesLocation ==
    (pc = "done" /\ errAt \in {"create", "args", "clean", "scan"}
       /\ err \in {UsageBoth, ResolveError(python), NotEmptyError})
        => OnlyRootCreated

\* reached: resolution fails while the prompt is formatted, with force set and
\* an occupied location waiting to be cleaned
C2_Witness ==
    /\ pc = "done" /\ err = ResolveError(python) /\ errAt = "args"
    /\ req.force /\ Occupied0

\* C3: for conda with a python= word among the extra args, no process is ever
\* spawned, the call never succeeds, and when the PdmUsageError is raised
\* nothing at the target location has been deleted.
C3_CondaPythonArgNoSideEffect ==
    (backend = "conda" /\ HasPythonArg) =>
        /\ spawned = 0
        /\ pc = "done" => err # NoError
        /\ err = UsagePythonArg => NothingDeleted

\* C4: _ensure_clean changes nothing when the location is absent, is an empty
\* directory, or is occupied with force false; it returns normally in the first
\* two cases and raises the not-empty error in the third, and only there.
C4_EnsureCleanNoOp ==
    /\ (Absent0 \/ EmptyDir0 \/ (Occupied0 /\ ~req.force)) => fs = fs0
    /\ pc # "clean" =>
          /\ (Absent0 \/ EmptyDir0) => pc = "perform" /\ err = NoError
          /\ (Occupied0 /\ ~req.force) => pc = "done" /\ err = NotEmptyError
          /\ err = NotEmptyError => Occupied0 /\ ~req.force

\* reached: the not-empty error on a directory with entries
C4_Witness ==
    /\ pc = "done" /\ err = NotEmptyError
    /\ fs0["loc"] = "dir" /\ fs0["loc/a"] = "dir" /\ fs0["loc/b"] = "link"

RealSubdirs0 == { e \in iterdir(fs0, lnk, "loc") : fs0[e] = "dir" }

DirLinks0 == { e \in iterdir(fs0, lnk, "loc") : fs0[e] = "link" /\ is_dir(fs0, lnk, e) }

Unchanged(t) == \A q \in {t} \cup Descendants(t) : fs[q] = fs0[q]

\* the shape of the location after a forced cleanup that returned normally
Emptied ==
    /\ is_file(fs0, lnk, "loc") => ~exists(fs, lnk, "loc")
    /\ is_dir(fs0, lnk, "loc") =>
          /\ is_dir(fs, lnk, "loc")
          /\ iterdir(fs, lnk, "loc") = {}
          /\ \A e \in RealSubdirs0 : \A q \in {e} \cup Descendants(e) : fs[q] = "none"
          /\ \A e \in DirLinks0 : fs[e] = "none"

\* C5, as stated: after _ensure_clean(location, force=true) returned normally
\* on an occupied location, a file is gone, a directory is there and empty,
\* real subdirectories are gone with all they held, and for every entry that
\* was a link to a directory the link is gone while its target and the
\* target's contents are unchanged.
C5_ForcedCleanKeepsEveryLinkTarget ==
    (pc = "perform" /\ req.force /\ Occupied0) =>
        /\ Emptied
        /\ \A e \in DirLinks0 : Unchanged(lnk[e])

\* C5, amended: as stated, except that a link's target and its contents are
\* unchanged when the target lies outside the location; a target that is
\* itself a subdirectory of the location is removed as that subdirectory.
C5_ForcedCleanKeepsOutsideLinkTargets ==
    (pc = "perform" /\ req.force /\ Occupied0) =>
        /\ Emptied
        /\ \A e \in DirLinks0 :
              IF lnk[e] \in iterdir(fs0, lnk, "loc")
              THEN \A q \in {lnk[e]} \cup Descendants(lnk[e]) : fs[q] = "none"
              ELSE Unchanged(lnk[e])

\* reached: a directory holding a real subdirectory with a file and a link to
\* a directory elsewhere has been emptied
C5_Witness ==
    /\ pc = "perform" /\ req.force
    /\ fs0["loc"] = "dir" /\ fs0["loc/a/x"] = "file"
    /\ fs0["loc/b"] = "link" /\ lnk["loc/b"] = "ext"
    /\ fs["loc/b"] = "none" /\ fs["loc/a"] = "none"

\* C6: resolution returns the pinned interpreter without consulting discovery
\* when no spec is given and one is pinned; the first discovered candidate,
\* valid or not, when a spec is given; the first valid candidate satisfying
\* requires-python when neither; and the resolution error when discovery
\* yields no accepted candidate.
C6_ResolutionRule ==
    pc = "done" =>
        IF python = "" /\ pinned # None
        THEN err = NoError /\ cache = pinned /\ consulted = 0
        ELSE IF python # ""
        THEN IF candidates # <<>>
             THEN err = NoError /\ cache = candidates[1]
             ELSE err = ResolveError(python) /\ cache = None
        ELSE IF \E i \in 1..Len(candidates) : Accepted(candidates[i])
        THEN \E i \in 1..Len(candidates) :
                /\ Accepted(candidates[i])
                /\ \A j \in 1..(i - 1) : ~Accepted(candidates[j])
                /\ err = NoError /\ cache = candidates[i]
        ELSE err = ResolveError(python) /\ cache = None

\* reached: an explicit spec has resolved to an invalid first candidate that
\* does not satisfy requires-python either
C6_Witness ==
    /\ pc = "done" /\ python # "" /\ err = NoError
    /\ Len(candidates) = MaxCands
    /\ ~candidates[1].valid /\ ~candidates[1].satisfies
    /\ cache = candidates[1]

\* the errors a conda call with the same inputs can also end in
SharedFailures == {UsageBoth, NotEmptyError, CleanupOSError}

\* C7: conda with an explicit spec never resolves an interpreter: its default
\* location name and its prompt carry the spec verbatim; the other backends,
\* given a spec for which discovery yields nothing, never spawn a process and
\* never succeed, and fail with the resolution error wherever conda would
\* have gone on.
C7_CondaIdentityVerbatim ==
    /\ (backend = "conda" /\ python # "") =>
          /\ uses = 0 /\ consulted = 0 /\ cache = None
          /\ err # ResolveError(python)
          /\ (location # <<>> /\ ~req.in_project /\ req.name = "" /\ req.venv_name = "")
                => location[Len(location)] = python
          /\ cprompt # <<>> => cprompt[Len(cprompt)] = python
    /\ (backend # "conda" /\ python # "" /\ candidates = <<>>) =>
          /\ spawned = 0
          /\ pc = "done" => err # NoError
          /\ (pc = "done" /\ err \notin SharedFailures) => err = ResolveError(python)

\* reached: conda has run its tool successfully for a spec no discovered
\* interpreter matches, having named the location and the prompt after it
C7_Witness ==
    /\ backend = "conda" /\ python # "" /\ candidates = <<>> /\ pinned = None
    /\ ~req.in_project /\ req.name = "" /\ req.venv_name = "" /\ req.prompt # "None"
    /\ pc = "done" /\ err = NoError /\ spawned = 1

\* C8: every failure of the external tool, a non-zero exit as well as a
\* failure to launch, leaves create as VirtualenvCreateError.
C8_ToolFailureIsCreateError ==
    (pc = "done" /\ errAt = "spawn") => err.type = "VirtualenvCreateError"

\* C9: an interpreter resolution failure is never raised after cleanup has
\* deleted entries of the target location.
C9_ResolutionBeforeCleanup ==
    err = ResolveError(python) => NothingDeleted

\* C10: within one create call discovery is consulted at most once, and not
\* before the interpreter is first needed; every read of the resolved
\* interpreter returns the one cached value.
C10_ResolvedOnce ==
    /\ consulted <= 1
    /\ consulted <= uses
    /\ pc = "create" => consulted = 0
    /\ Cardinality(seen) <= 1
    /\ seen # {} => seen = {cache}

\* reached: a successful call that read the resolved interpreter for the
\* location name, the prompt and the command, with one discovery call
C10_Witness ==
    /\ pc = "done" /\ err = NoError
    /\ uses > 2 /\ consulted = 1

====
